---- MODULE Spec2Model ----
(***************************************************************************)
(* Model of core/packages.go (ABRoot PackageManager).                      *)
(*                                                                         *)
(* A Go string is modelled as a sequence of one-character strings, so that *)
(* strings.TrimSpace, strings.Split, strings.SplitN, strings.Join and      *)
(* fmt.Sprintf are computed character by character.  The three persisted   *)
(* files hold such strings.                                                *)
(***************************************************************************)
EXTENDS Integers, Sequences, FiniteSets, TLC

VARIABLES addFile, removeFile, unstagedFile, Status, agreement, hist, foldIn, foldOut

vars == <<addFile, removeFile, unstagedFile, Status, agreement, hist, foldIn, foldOut>>

(* ------------------------------ bounds --------------------------------- *)

\* number of calls made on the package manager in one behaviour
MaxOps == 3

\* length of the entry sequences the fold is applied to in SpecFold
MaxLog == 4

(* ----------------------------- constants ------------------------------- *)

PKG_MNG_DISABLED == 0
PKG_MNG_ENABLED == 1
PKG_MNG_REQ_AGREEMENT == 2

ADD == <<"+">>
REMOVE == <<"-">>

APPLY == "APPLY"
UPGRADE == "UPGRADE"

SP == " "
NL == "\n"

(* --------------------------- string library ---------------------------- *)

SetMin(S) == CHOOSE x \in S : \A y \in S : x <= y
SetMax(S) == CHOOSE x \in S : \A y \in S : y <= x

\* strings.TrimSpace: drop leading and trailing white space
TrimSpace(s) ==
    LET keep == {i \in 1..Len(s) : s[i] \notin {SP, NL}}
    IN IF keep = {} THEN <<>> ELSE SubSeq(s, SetMin(keep), SetMax(keep))

\* strings.Split(s, sep) for a one-character separator; Split("") = [""]
RECURSIVE Split(_, _)
Split(s, sep) ==
    LET at == {i \in 1..Len(s) : s[i] = sep}
    IN IF at = {} THEN <<s>>
       ELSE LET i == SetMin(at)
            IN <<SubSeq(s, 1, i - 1)>> \o Split(SubSeq(s, i + 1, Len(s)), sep)

\* strings.SplitN(s, sep, 2): split on the first separator only
SplitN2(s, sep) ==
    LET at == {i \in 1..Len(s) : s[i] = sep}
    IN IF at = {} THEN <<s>>
       ELSE LET i == SetMin(at)
            IN <<SubSeq(s, 1, i - 1), SubSeq(s, i + 1, Len(s))>>

\* strings.Join(list, sep)
RECURSIVE Join(_, _)
Join(list, sep) ==
    IF Len(list) = 0 THEN <<>>
    ELSE IF Len(list) = 1 THEN list[1]
    ELSE list[1] \o sep \o Join(Tail(list), sep)

\* fmt.Sprintf("%s %s", a, b)
Sprintf2(a, b) == a \o <<SP>> \o b

\* fmt.Sprintf("%s && %s", a, b)
SprintfAnd(a, b) == a \o <<SP, "&", "&", SP>> \o b

\* append(s[:i], s[i+1:]...) with the 1-based index i
RemoveAt(s, i) == SubSeq(s, 1, i - 1) \o SubSeq(s, i + 1, Len(s))

\* index of the first element equal to x, 0 when absent (for i, e := range s)
IndexOf(s, x) ==
    LET at == {i \in 1..Len(s) : s[i] = x}
    IN IF at = {} THEN 0 ELSE SetMin(at)

(* ------------------------------ storage -------------------------------- *)

\* getPackages: the lines of the trimmed file
getPackages(file) == Split(TrimSpace(file), NL)

\* writePackages: every non-empty element followed by a newline
RECURSIVE writePackages(_)
writePackages(pkgs) ==
    IF Len(pkgs) = 0 THEN <<>>
    ELSE (IF pkgs[1] = <<>> THEN <<>> ELSE pkgs[1] \o <<NL>>)
         \o writePackages(Tail(pkgs))

\* GetUnstagedPackages: parse "<op> <name>" lines; splits[1] on a line
\* without a space is an index out of range, which panics
RECURSIVE parseUnstaged(_)
parseUnstaged(lines) ==
    IF Len(lines) = 0 THEN [panic |-> FALSE, list |-> <<>>]
    ELSE LET line == lines[1]
             rest == parseUnstaged(Tail(lines))
         IN IF line = <<>> \/ line = <<NL>> THEN rest
            ELSE LET splits == SplitN2(line, SP)
                 IN IF Len(splits) < 2
                    THEN [panic |-> TRUE, list |-> <<>>]
                    ELSE [panic |-> rest.panic,
                          list |-> IF rest.panic THEN <<>>
                                   ELSE <<[Name |-> splits[2], Status |-> splits[1]]>>
                                        \o rest.list]

GetUnstagedPackages(file) == parseUnstaged(getPackages(file))

\* FoldStep where an entry of the opposite operation replaces the existing one
FoldStepLastWins(pkgsCleaned, pkg) ==
    LET same == {i \in 1..Len(pkgsCleaned) : pkgsCleaned[i].Name = pkg.Name}
    IN IF same = {} THEN Append(pkgsCleaned, pkg)
       ELSE LET iCmp == SetMin(same)
            IN IF pkg.Status # pkgsCleaned[iCmp].Status
               THEN Append(RemoveAt(pkgsCleaned, iCmp), pkg)
               ELSE pkgsCleaned

\* FoldStep with a new entry put in front of the cleaned slice
FoldStepPrepend(pkgsCleaned, pkg) ==
    LET same == {i \in 1..Len(pkgsCleaned) : pkgsCleaned[i].Name = pkg.Name}
    IN IF same = {} THEN <<pkg>> \o pkgsCleaned
       ELSE LET iCmp == SetMin(same)
            IN IF pkg.Status # pkgsCleaned[iCmp].Status
               THEN RemoveAt(pkgsCleaned, iCmp)
               ELSE pkgsCleaned

\* writeUnstagedPackages, first loop body: one entry against the cleaned slice
FoldStep(pkgsCleaned, pkg) ==
    LET same == {i \in 1..Len(pkgsCleaned) : pkgsCleaned[i].Name = pkg.Name}
    IN IF same = {} THEN Append(pkgsCleaned, pkg)
       ELSE LET iCmp == SetMin(same)
            IN IF pkg.Status # pkgsCleaned[iCmp].Status
               THEN RemoveAt(pkgsCleaned, iCmp)
               ELSE pkgsCleaned

\* writeUnstagedPackages, first loop: the slice without redundant entries
RECURSIVE FoldFrom(_, _)
FoldFrom(pkgsCleaned, pkgs) ==
    IF Len(pkgs) = 0 THEN pkgsCleaned
    ELSE FoldFrom(FoldStep(pkgsCleaned, pkgs[1]), Tail(pkgs))

Fold(pkgs) == FoldFrom(<<>>, pkgs)

\* writeUnstagedPackages: fold, format "<status> <name>", write
writeUnstagedPackages(pkgs) ==
    LET pkgsCleaned == Fold(pkgs)
        pkgFmt == [i \in 1..Len(pkgsCleaned) |->
                      Sprintf2(pkgsCleaned[i].Status, pkgsCleaned[i].Name)]
    IN writePackages(pkgFmt)

(* ------------------------------- gate ---------------------------------- *)

\* GetUserAgreementStatus with the os.Stat test inverted
GetUserAgreementStatusInverted(status, agreed) ==
    IF status # PKG_MNG_REQ_AGREEMENT THEN TRUE ELSE ~agreed

GetUserAgreementStatus(status, agreed) ==
    IF status # PKG_MNG_REQ_AGREEMENT THEN TRUE ELSE agreed

\* CheckStatus that refuses a disabled package manager
CheckStatusDisabledFails(status, agreed) ==
    IF status = PKG_MNG_DISABLED THEN "gate"
    ELSE IF status = PKG_MNG_REQ_AGREEMENT /\ ~GetUserAgreementStatus(status, agreed)
         THEN "gate"
         ELSE "ok"

\* CheckStatus: "ok" for nil, "gate" for the agreement error
CheckStatus(status, agreed) ==
    IF status = PKG_MNG_DISABLED THEN "ok"
    ELSE IF status = PKG_MNG_REQ_AGREEMENT /\ ~GetUserAgreementStatus(status, agreed)
         THEN "gate"
         ELSE "ok"

(* ------------------------------ catalog -------------------------------- *)

\* ExistsInRepo: nil when no API url is set, else the answer of the catalog
ExistsInRepo(pkg, repo) == (~repo.api) \/ pkg \in repo.pkgs

(* ------------------------------ staging -------------------------------- *)

Files(a, r, u) == [add |-> a, remove |-> r, unstaged |-> u]

Result(res, f) == [res |-> res, f |-> f]

\* PackageManager.Add, lines 183-221: the writes, once the checks have passed
AddStaged(f, pkg) ==
    LET pkgsRemove == getPackages(f.remove)
        removedIndex == IndexOf(pkgsRemove, pkg)
        packageWasRemoved == removedIndex # 0
        upkgs == GetUnstagedPackages(f.unstaged)
        unstaged2 == writeUnstagedPackages(
                        Append(upkgs.list, [Name |-> pkg, Status |-> ADD]))
        pkgsAdd == getPackages(f.add)
    IN IF upkgs.panic THEN Result("panic", f)
       ELSE IF packageWasRemoved
       THEN Result("ok", Files(f.add,
                               writePackages(RemoveAt(pkgsRemove, removedIndex)),
                               unstaged2))
       ELSE IF IndexOf(pkgsAdd, pkg) # 0
       THEN Result("ok", Files(f.add, f.remove, unstaged2))
       ELSE Result("ok", Files(writePackages(Append(pkgsAdd, pkg)),
                               f.remove, unstaged2))

\* PackageManager.Add on the files f
AddCall(f, status, agreed, pkg, repo) ==
    LET packageWasRemoved == IndexOf(getPackages(f.remove), pkg) # 0
        tokens == Split(pkg, SP)
    IN IF CheckStatus(status, agreed) # "ok" THEN Result("gate", f)
       ELSE IF ~packageWasRemoved
               /\ \E i \in 1..Len(tokens) : ~ExistsInRepo(tokens[i], repo)
       THEN Result("repo", f)
       ELSE AddStaged(f, pkg)

\* PackageManager.Remove, lines 245-291: the writes, once the checks have
\* passed
RemoveStaged(f, pkg) ==
    LET upkgs == GetUnstagedPackages(f.unstaged)
        unstaged2 == writeUnstagedPackages(
                        Append(upkgs.list, [Name |-> pkg, Status |-> REMOVE]))
        pkgsAdd == getPackages(f.add)
        i == IndexOf(pkgsAdd, pkg)
        pkgsRemove == getPackages(f.remove)
    IN IF upkgs.panic THEN Result("panic", f)
       ELSE IF i # 0
       THEN Result("ok", Files(writePackages(RemoveAt(pkgsAdd, i)),
                               f.remove, unstaged2))
       ELSE IF IndexOf(pkgsRemove, pkg) # 0
       THEN Result("ok", Files(f.add, f.remove, unstaged2))
       ELSE Result("ok", Files(f.add,
                               writePackages(Append(pkgsRemove, pkg)),
                               unstaged2))

\* Remove with the Unstaged log written before the catalog is asked
RemoveCallLogFirst(f, status, agreed, pkg, repo) ==
    IF CheckStatus(status, agreed) # "ok" THEN Result("gate", f)
    ELSE IF ~ExistsInRepo(pkg, repo)
         THEN Result("repo", Files(f.add, f.remove, RemoveStaged(f, pkg).f.unstaged))
         ELSE RemoveStaged(f, pkg)

\* PackageManager.Remove on the files f
RemoveCall(f, status, agreed, pkg, repo) ==
    IF CheckStatus(status, agreed) # "ok" THEN Result("gate", f)
    ELSE IF ~ExistsInRepo(pkg, repo) THEN Result("repo", f)
    ELSE RemoveStaged(f, pkg)

\* PackageManager.ClearUnstagedPackages
ClearCall(f) == Result("ok", Files(f.add, f.remove, writeUnstagedPackages(<<>>)))

(* ------------------------- command synthesis --------------------------- *)

\* processApplyPackages with the two cases of the switch exchanged
processApplyPackagesSwapped(f, cnf) ==
    LET unstaged == GetUnstagedPackages(f.unstaged)
        addSel == SelectSeq(unstaged.list, LAMBDA pkg : pkg.Status = REMOVE)
        rmSel == SelectSeq(unstaged.list, LAMBDA pkg : pkg.Status = ADD)
        addPkgs == [i \in 1..Len(addSel) |-> addSel[i].Name]
        removePkgs == [i \in 1..Len(rmSel) |-> rmSel[i].Name]
    IN [panic |-> unstaged.panic,
        add |-> IF Len(addPkgs) > 0
                THEN Sprintf2(cnf.IPkgMngAdd, Join(addPkgs, <<SP>>)) ELSE <<>>,
        rm |-> IF Len(removePkgs) > 0
               THEN Sprintf2(cnf.IPkgMngRm, Join(removePkgs, <<SP>>)) ELSE <<>>]

\* processApplyPackages: the two fragments built from the unstaged log
processApplyPackages(f, cnf) ==
    LET unstaged == GetUnstagedPackages(f.unstaged)
        addSel == SelectSeq(unstaged.list, LAMBDA pkg : pkg.Status = ADD)
        rmSel == SelectSeq(unstaged.list, LAMBDA pkg : pkg.Status = REMOVE)
        addPkgs == [i \in 1..Len(addSel) |-> addSel[i].Name]
        removePkgs == [i \in 1..Len(rmSel) |-> rmSel[i].Name]
    IN [panic |-> unstaged.panic,
        add |-> IF Len(addPkgs) > 0
                THEN Sprintf2(cnf.IPkgMngAdd, Join(addPkgs, <<SP>>)) ELSE <<>>,
        rm |-> IF Len(removePkgs) > 0
               THEN Sprintf2(cnf.IPkgMngRm, Join(removePkgs, <<SP>>)) ELSE <<>>]

\* processUpgradePackages reading the unstaged log instead of the two sets
processUpgradeFromUnstaged(f, cnf) == processApplyPackages(f, cnf)

\* processUpgradePackages: the two fragments built from packages.add and
\* packages.remove
processUpgradePackages(f, cnf) ==
    LET addPkgs == Join(getPackages(f.add), <<SP>>)
        removePkgs == Join(getPackages(f.remove), <<SP>>)
    IN IF Len(addPkgs) = 0 /\ Len(removePkgs) = 0
       THEN [panic |-> FALSE, add |-> <<>>, rm |-> <<>>]
       ELSE [panic |-> FALSE,
             add |-> IF addPkgs # <<>>
                     THEN Sprintf2(cnf.IPkgMngAdd, addPkgs) ELSE <<>>,
             rm |-> IF removePkgs # <<>>
                    THEN Sprintf2(cnf.IPkgMngRm, removePkgs) ELSE <<>>]

\* GetFinalCmd, lines 542-549: join of the two fragments
JoinFragments(finalAddPkgs, finalRemovePkgs) ==
    IF finalAddPkgs # <<>> /\ finalRemovePkgs # <<>>
    THEN SprintfAnd(finalAddPkgs, finalRemovePkgs)
    ELSE IF finalAddPkgs # <<>> THEN finalAddPkgs
    ELSE IF finalRemovePkgs # <<>> THEN finalRemovePkgs
    ELSE <<>>

\* WrapHooks with the post hook tested in an else branch of the pre hook
WrapHooksElseIf(cmd, cnf) ==
    IF cmd = <<>> THEN cmd
    ELSE IF cnf.IPkgMngPre # <<>> THEN SprintfAnd(cnf.IPkgMngPre, cmd)
    ELSE IF cnf.IPkgMngPost # <<>> THEN SprintfAnd(cmd, cnf.IPkgMngPost)
    ELSE cmd

\* WrapHooks without the early return on an empty command
WrapHooksAlways(cmd, cnf) ==
    LET c1 == IF cnf.IPkgMngPre # <<>>
              THEN SprintfAnd(cnf.IPkgMngPre, cmd) ELSE cmd
    IN IF cnf.IPkgMngPost # <<>>
       THEN SprintfAnd(c1, cnf.IPkgMngPost) ELSE c1

\* GetFinalCmd, lines 551-566: pre and post hooks around a non-empty command
WrapHooks(cmd, cnf) ==
    IF cmd = <<>> THEN cmd
    ELSE LET c1 == IF cnf.IPkgMngPre # <<>>
                   THEN SprintfAnd(cnf.IPkgMngPre, cmd) ELSE cmd
         IN IF cnf.IPkgMngPost # <<>>
            THEN SprintfAnd(c1, cnf.IPkgMngPost) ELSE c1

\* PackageManager.GetFinalCmd
GetFinalCmd(f, operation, cnf) ==
    LET frag == IF operation = APPLY THEN processApplyPackages(f, cnf)
                ELSE processUpgradePackages(f, cnf)
    IN IF frag.panic THEN [res |-> "panic", cmd |-> <<>>]
       ELSE [res |-> "ok", cmd |-> WrapHooks(JoinFragments(frag.add, frag.rm), cnf)]

(* ------------------------------- inputs -------------------------------- *)

\* package names passed to Add and Remove: empty, plain, compound, and
\* with a trailing or a leading space
PkgNames == {<<>>, <<"a">>, <<"b">>, <<"a", SP, "b">>, <<"a", SP>>, <<SP, "a">>}

\* what the catalog answers during one call: no API url configured (every
\* check passes), or a catalog that knows package "a" only
Catalogs == {[api |-> FALSE, pkgs |-> {}], [api |-> TRUE, pkgs |-> {<<"a">>}]}

INSTALL == <<"i", "n", "s", "t", "a", "l", "l">>
PURGE == <<"p", "u", "r", "g", "e">>
LOCK == <<"l", "o", "c", "k">>
UNLOCK == <<"u", "n", "l", "o", "c", "k">>

\* settings.Cnf as read by one GetFinalCmd call
Configs == {[IPkgMngAdd |-> INSTALL, IPkgMngRm |-> PURGE,
             IPkgMngPre |-> pre, IPkgMngPost |-> post] :
               pre \in {<<>>, LOCK}, post \in {<<>>, UNLOCK}}

NoRepo == [api |-> FALSE, pkgs |-> {}]

NoCnf == [IPkgMngAdd |-> <<>>, IPkgMngRm |-> <<>>,
          IPkgMngPre |-> <<>>, IPkgMngPost |-> <<>>]

(* ---------------------------- state machine ---------------------------- *)

CurFiles == Files(addFile, removeFile, unstagedFile)

\* one record of hist: the call, its arguments, its result, and the files and
\* the agreement record before it
Call(op, pkg, repo, mode, cnf, res, cmd) ==
    [op |-> op, pkg |-> pkg, repo |-> repo, mode |-> mode, cnf |-> cnf,
     res |-> res, cmd |-> cmd, before |-> CurFiles, agreed |-> agreement]

\* NewPackageManager: the three files are created empty; Status comes from
\* settings.Cnf.IPkgMngStatus; no agreement file yet
Init ==
    /\ addFile = <<>>
    /\ removeFile = <<>>
    /\ unstagedFile = <<>>
    /\ Status \in {PKG_MNG_DISABLED, PKG_MNG_ENABLED, PKG_MNG_REQ_AGREEMENT}
    /\ agreement = FALSE
    /\ hist = <<>>
    /\ foldIn = <<>>
    /\ foldOut = <<>>

Commit(r) ==
    /\ addFile' = r.f.add
    /\ removeFile' = r.f.remove
    /\ unstagedFile' = r.f.unstaged

Add(pkg, repo) ==
    /\ Len(hist) < MaxOps
    /\ LET r == AddCall(CurFiles, Status, agreement, pkg, repo)
       IN /\ Commit(r)
          /\ hist' = Append(hist, Call("Add", pkg, repo, "", NoCnf, r.res, <<>>))
    /\ UNCHANGED <<Status, agreement, foldIn, foldOut>>

Remove(pkg, repo) ==
    /\ Len(hist) < MaxOps
    /\ LET r == RemoveCall(CurFiles, Status, agreement, pkg, repo)
       IN /\ Commit(r)
          /\ hist' = Append(hist, Call("Remove", pkg, repo, "", NoCnf, r.res, <<>>))
    /\ UNCHANGED <<Status, agreement, foldIn, foldOut>>

ClearUnstagedPackages ==
    /\ Len(hist) < MaxOps
    /\ Commit(ClearCall(CurFiles))
    /\ hist' = Append(hist, Call("Clear", <<>>, NoRepo, "", NoCnf, "ok", <<>>))
    /\ UNCHANGED <<Status, agreement, foldIn, foldOut>>

AcceptUserAgreement ==
    /\ Len(hist) < MaxOps
    /\ agreement' = IF Status # PKG_MNG_REQ_AGREEMENT THEN agreement ELSE TRUE
    /\ hist' = Append(hist, Call("Accept", <<>>, NoRepo, "", NoCnf, "ok", <<>>))
    /\ UNCHANGED <<addFile, removeFile, unstagedFile, Status, foldIn, foldOut>>

FinalCmd(operation, cnf) ==
    /\ Len(hist) < MaxOps
    /\ LET r == GetFinalCmd(CurFiles, operation, cnf)
       IN hist' = Append(hist, Call("GetFinalCmd", <<>>, NoRepo, operation, cnf, r.res, r.cmd))
    /\ UNCHANGED <<addFile, removeFile, unstagedFile, Status, agreement, foldIn, foldOut>>

Next ==
    \/ \E pkg \in PkgNames, repo \in Catalogs : Add(pkg, repo)
    \/ \E pkg \in PkgNames, repo \in Catalogs : Remove(pkg, repo)
    \/ ClearUnstagedPackages
    \/ AcceptUserAgreement
    \/ \E operation \in {APPLY, UPGRADE}, cnf \in Configs : FinalCmd(operation, cnf)

Spec == Init /\ [][Next]_vars

(* ------------------- the fold applied to arbitrary logs ---------------- *)

\* names of the entries handed to the fold
FoldNames == {<<"a">>, <<"b">>, <<"a", SP>>}

FoldEntries == [Name : FoldNames, Status : {ADD, REMOVE}]

SeqsUpTo(S, n) == UNION {[1..k -> S] : k \in 0..n}

InitFold ==
    /\ addFile = <<>>
    /\ removeFile = <<>>
    /\ unstagedFile = <<>>
    /\ Status = PKG_MNG_ENABLED
    /\ agreement = FALSE
    /\ hist = <<>>
    /\ foldIn \in SeqsUpTo(FoldEntries, MaxLog)
    /\ foldOut = <<>>

\* fold foldIn, then fold the result again
FoldAgain ==
    /\ Len(foldOut) < 2
    /\ foldOut' = Append(foldOut,
                         Fold(IF foldOut = <<>> THEN foldIn ELSE foldOut[Len(foldOut)]))
    /\ UNCHANGED <<addFile, removeFile, unstagedFile, Status, agreement, hist, foldIn>>

NextFold == FoldAgain

SpecFold == InitFold /\ [][NextFold]_vars

(* ------------------- staging on storage that can fail ------------------ *)

\* the furthest line at which a write is made to fail
MaxFailAt == 2

\* the lines writeUnstagedPackages hands to writePackages (lines 436-439)
UnstagedFmt(pkgs) ==
    LET pkgsCleaned == Fold(pkgs)
    IN [i \in 1..Len(pkgsCleaned) |->
           Sprintf2(pkgsCleaned[i].Status, pkgsCleaned[i].Name)]

\* the elements writePackages writes a line for (line 454)
Written(pkgs) == SelectSeq(pkgs, LAMBDA pkg : pkg # <<>>)

\* where a failing write of pkgs fails: 0 for os.Create (line 447), k >= 1 for
\* the Fprintf of the k-th line (line 458)
FailPoint(pkgs, at) == IF at <= Len(Written(pkgs)) THEN at ELSE Len(Written(pkgs))

\* writePackages returning an error: os.Create failed and the file is as it
\* was, or os.Create truncated the file and the lines before the failing
\* Fprintf are in it
writePackagesFailed(old, pkgs, at) ==
    IF FailPoint(pkgs, at) = 0 THEN old
    ELSE writePackages(SubSeq(Written(pkgs), 1, FailPoint(pkgs, at) - 1))

\* what the storage does to one call: which write fails, and where
Faults == [write : {"none", "log", "set"}, at : 0..MaxFailAt]

NoFault == [write |-> "none", at |-> 0]

ResultIO(res, f, fault) == [res |-> res, f |-> f, fault |-> fault]

\* the write of a set by Add or Remove, failing if the storage says so
SetWrite(old, pkgs, fault) ==
    IF fault.write = "set"
    THEN [res |-> "io", file |-> writePackagesFailed(old, pkgs, fault.at),
          fault |-> [write |-> "set", at |-> FailPoint(pkgs, fault.at)]]
    ELSE [res |-> "ok", file |-> writePackages(pkgs), fault |-> NoFault]

\* PackageManager.Add, lines 183-221, with every write able to fail
AddStagedIO(f, pkg, fault) ==
    LET pkgsRemove == getPackages(f.remove)
        removedIndex == IndexOf(pkgsRemove, pkg)
        upkgs == GetUnstagedPackages(f.unstaged)
        upkgs2 == Append(upkgs.list, [Name |-> pkg, Status |-> ADD])
        pkgsAdd == getPackages(f.add)
        wRemove == SetWrite(f.remove, RemoveAt(pkgsRemove, removedIndex), fault)
        wAdd == SetWrite(f.add, Append(pkgsAdd, pkg), fault)
    IN IF upkgs.panic THEN ResultIO("panic", f, NoFault)
       ELSE IF fault.write = "log"
       THEN ResultIO("io",
                     Files(f.add, f.remove,
                           writePackagesFailed(f.unstaged, UnstagedFmt(upkgs2), fault.at)),
                     [write |-> "log", at |-> FailPoint(UnstagedFmt(upkgs2), fault.at)])
       ELSE IF removedIndex # 0
       THEN ResultIO(wRemove.res,
                     Files(f.add, wRemove.file, writeUnstagedPackages(upkgs2)),
                     wRemove.fault)
       ELSE IF IndexOf(pkgsAdd, pkg) # 0
       THEN ResultIO("ok", Files(f.add, f.remove, writeUnstagedPackages(upkgs2)), NoFault)
       ELSE ResultIO(wAdd.res,
                     Files(wAdd.file, f.remove, writeUnstagedPackages(upkgs2)),
                     wAdd.fault)

\* PackageManager.Remove, lines 245-291, with every write able to fail
RemoveStagedIO(f, pkg, fault) ==
    LET upkgs == GetUnstagedPackages(f.unstaged)
        upkgs2 == Append(upkgs.list, [Name |-> pkg, Status |-> REMOVE])
        pkgsAdd == getPackages(f.add)
        i == IndexOf(pkgsAdd, pkg)
        pkgsRemove == getPackages(f.remove)
        wAdd == SetWrite(f.add, RemoveAt(pkgsAdd, i), fault)
        wRemove == SetWrite(f.remove, Append(pkgsRemove, pkg), fault)
    IN IF upkgs.panic THEN ResultIO("panic", f, NoFault)
       ELSE IF fault.write = "log"
       THEN ResultIO("io",
                     Files(f.add, f.remove,
                           writePackagesFailed(f.unstaged, UnstagedFmt(upkgs2), fault.at)),
                     [write |-> "log", at |-> FailPoint(UnstagedFmt(upkgs2), fault.at)])
       ELSE IF i # 0
       THEN ResultIO(wAdd.res,
                     Files(wAdd.file, f.remove, writeUnstagedPackages(upkgs2)),
                     wAdd.fault)
       ELSE IF IndexOf(pkgsRemove, pkg) # 0
       THEN ResultIO("ok", Files(f.add, f.remove, writeUnstagedPackages(upkgs2)), NoFault)
       ELSE ResultIO(wRemove.res,
                     Files(f.add, wRemove.file, writeUnstagedPackages(upkgs2)),
                     wRemove.fault)

\* names staged on the failing storage
IONames == {<<"a">>, <<"b">>}

InitIO ==
    /\ addFile = <<>>
    /\ removeFile = <<>>
    /\ unstagedFile = <<>>
    /\ Status = PKG_MNG_ENABLED
    /\ agreement = FALSE
    /\ hist = <<>>
    /\ foldIn = <<>>
    /\ foldOut = <<>>

\* one record of hist on the failing storage: the call and the write that
\* failed in it
CallIO(op, pkg, r) ==
    [op |-> op, pkg |-> pkg, res |-> r.res, fault |-> r.fault,
     before |-> CurFiles, agreed |-> agreement]

AddIO(pkg, fault) ==
    /\ Len(hist) < MaxOps
    /\ CheckStatus(Status, agreement) = "ok"
    /\ ExistsInRepo(pkg, NoRepo)
    /\ LET r == AddStagedIO(CurFiles, pkg, fault)
       IN /\ Commit(r)
          /\ hist' = Append(hist, CallIO("Add", pkg, r))
    /\ UNCHANGED <<Status, agreement, foldIn, foldOut>>

RemoveIO(pkg, fault) ==
    /\ Len(hist) < MaxOps
    /\ CheckStatus(Status, agreement) = "ok"
    /\ ExistsInRepo(pkg, NoRepo)
    /\ LET r == RemoveStagedIO(CurFiles, pkg, fault)
       IN /\ Commit(r)
          /\ hist' = Append(hist, CallIO("Remove", pkg, r))
    /\ UNCHANGED <<Status, agreement, foldIn, foldOut>>

NextIO ==
    \/ \E pkg \in IONames, fault \in Faults : AddIO(pkg, fault)
    \/ \E pkg \in IONames, fault \in Faults : RemoveIO(pkg, fault)

SpecIO == InitIO /\ [][NextIO]_vars

(* ------------------------ vocabulary of the claims --------------------- *)

Elems(s) == {s[i] : i \in 1..Len(s)}

Count(s, x) == Cardinality({i \in 1..Len(s) : s[i] = x})

NoDup(s) == \A i, j \in 1..Len(s) : s[i] = s[j] => i = j

\* a list as the program reads it back, with the single empty element of an
\* empty file dropped (getSummary, lines 591-597)
Normalize(pkgs) == IF Len(pkgs) = 1 /\ pkgs[1] = <<>> THEN <<>> ELSE pkgs

AddSet(f) == Normalize(getPackages(f.add))
RemoveSet(f) == Normalize(getPackages(f.remove))
Unstaged(f) == GetUnstagedPackages(f.unstaged).list

\* the lines of packages.unstaged, one per entry of the log
LogLines(f) == Normalize(getPackages(f.unstaged))

EntriesOf(f, n) == SelectSeq(Unstaged(f), LAMBDA e : e.Name = n)

\* n is in neither set and has no entry in the Unstaged log
Neutral(f, n) ==
    /\ n \notin Elems(AddSet(f))
    /\ n \notin Elems(RemoveSet(f))
    /\ EntriesOf(f, n) = <<>>

SameLists(f, g) ==
    /\ AddSet(f) = AddSet(g)
    /\ RemoveSet(f) = RemoveSet(g)
    /\ Unstaged(f) = Unstaged(g)

\* the files after the i-th call of hist
After(i) == IF i = Len(hist) THEN CurFiles ELSE hist[i + 1].before

\* the i-th call of hist is a successful op(n)
Did(i, op, n) ==
    /\ i \in 1..Len(hist)
    /\ hist[i].op = op
    /\ hist[i].pkg = n
    /\ hist[i].res = "ok"

(* -------------------------------- claims ------------------------------- *)

\* C1: after any sequence of Add / Remove / ClearUnstagedPackages calls from
\* empty lists, no package name is in both AddSet and RemoveSet.
C1_Disjoint == Elems(AddSet(CurFiles)) \cap Elems(RemoveSet(CurFiles)) = {}

\* C2: for a name n that is neutral, a successful Add(n) immediately followed
\* by a successful Remove(n) leaves n neutral and the three lists as they were
\* before the Add(n).
C2_AddRemoveCancels ==
    \A i \in 1..Len(hist), n \in PkgNames :
        (/\ Did(i, "Add", n)
         /\ Did(i + 1, "Remove", n)
         /\ Neutral(hist[i].before, n))
        => /\ Neutral(After(i + 1), n)
           /\ SameLists(After(i + 1), hist[i].before)

\* C3: two successful Add(n) in a row leave n exactly once in AddSet, and no
\* name ever occurs more than once in AddSet or in RemoveSet.
C3_NoDuplicates ==
    /\ NoDup(AddSet(CurFiles))
    /\ NoDup(RemoveSet(CurFiles))
    /\ \A i \in 1..Len(hist), n \in PkgNames :
           (Did(i, "Add", n) /\ Did(i + 1, "Add", n))
           => Count(AddSet(After(i + 1)), n) = 1

\* C4: for a neutral name n, the successful calls Remove(n), Add(n), Remove(n)
\* in a row end with n in RemoveSet, n not in AddSet, and (n, Remove) as the
\* only Unstaged entry for n.
C4_RemoveAddRemove ==
    \A i \in 1..Len(hist), n \in PkgNames :
        (/\ Did(i, "Remove", n)
         /\ Did(i + 1, "Add", n)
         /\ Did(i + 2, "Remove", n)
         /\ Neutral(hist[i].before, n))
        => /\ n \in Elems(RemoveSet(After(i + 2)))
           /\ n \notin Elems(AddSet(After(i + 2)))
           /\ EntriesOf(After(i + 2), n) = <<[Name |-> n, Status |-> REMOVE]>>

\* C5: the fold of writeUnstagedPackages is idempotent: folding the folded
\* sequence again yields the same entries in the same order.
C5_FoldIdempotent == Len(foldOut) = 2 => foldOut[2] = foldOut[1]

\* a log of three or more entries that the fold changed into a non-empty log,
\* folded twice
C5_Witness ==
    /\ Len(foldOut) = 2
    /\ Len(foldIn) >= 3
    /\ foldOut[1] # foldIn
    /\ Len(foldOut[1]) >= 2

\* every token of pkg is known to the catalog repo
CatalogPermits(pkg, repo) ==
    LET tokens == Split(pkg, SP)
    IN \A i \in 1..Len(tokens) : ExistsInRepo(tokens[i], repo)

\* C6: with status RequiresAgreement and no agreement record, Add(n) fails
\* with the gate error and changes none of the three lists; after a
\* successful AcceptUserAgreement the identical Add(n) passes the gate and,
\* the catalog permitting, succeeds.
C6_GateThenAccept ==
    /\ \A i \in 1..Len(hist) :
           (hist[i].op = "Add" /\ Status = PKG_MNG_REQ_AGREEMENT /\ ~hist[i].agreed)
           => (hist[i].res = "gate" /\ After(i) = hist[i].before)
    /\ \A i \in 1..Len(hist) :
           (/\ i + 2 <= Len(hist)
            /\ hist[i].op = "Add" /\ hist[i].res = "gate"
            /\ hist[i + 1].op = "Accept" /\ hist[i + 1].res = "ok"
            /\ hist[i + 2].op = "Add" /\ hist[i + 2].pkg = hist[i].pkg)
           => /\ hist[i + 2].res # "gate"
              /\ CatalogPermits(hist[i + 2].pkg, hist[i + 2].repo)
                     => hist[i + 2].res = "ok"

\* Add("a") rejected by the gate, the agreement accepted, Add("a") staged
C6_Witness ==
    /\ Len(hist) = 3
    /\ hist[1].op = "Add" /\ hist[1].pkg = <<"a">> /\ hist[1].res = "gate"
    /\ hist[2].op = "Accept"
    /\ Did(3, "Add", <<"a">>)
    /\ AddSet(CurFiles) = <<(<<"a">>)>>

\* C7: when a catalog check fails during Add(name) (on any token of name) or
\* during Remove(name), the call returns the error and the three lists are as
\* before the call.
C7_CatalogFailureWritesNothing ==
    \A i \in 1..Len(hist) :
        LET c == hist[i]
            gateOk == CheckStatus(Status, c.agreed) = "ok"
        IN /\ (c.op = "Remove" /\ gateOk /\ ~ExistsInRepo(c.pkg, c.repo))
              => c.res = "repo"
           /\ (c.op = "Add" /\ gateOk /\ ~CatalogPermits(c.pkg, c.repo)
               /\ c.pkg \notin Elems(getPackages(c.before.remove)))
              => c.res = "repo"
           /\ (c.op \in {"Add", "Remove"} /\ c.res = "repo")
              => After(i) = c.before

\* Add("a b") is refused on its second token and Remove("b") on its name,
\* both with lists that are not empty
C7_Witness ==
    /\ Len(hist) = 3
    /\ Did(1, "Add", <<"a">>)
    /\ hist[2].op = "Add" /\ hist[2].pkg = <<"a", SP, "b">> /\ hist[2].res = "repo"
    /\ hist[3].op = "Remove" /\ hist[3].pkg = <<"b">> /\ hist[3].res = "repo"
    /\ AddSet(CurFiles) = <<(<<"a">>)>>

\* C8: GetFinalCmd returns the empty string exactly when there is nothing to
\* do -- Apply: no Unstaged entry; Upgrade: AddSet and RemoveSet empty --
\* whatever hooks are configured.
C8_EmptyIffNothingToDo ==
    \A i \in 1..Len(hist) :
        LET c == hist[i]
        IN c.op = "GetFinalCmd"
           => ((c.res = "ok" /\ c.cmd = <<>>)
               <=> IF c.mode = APPLY
                   THEN LogLines(c.before) = <<>>
                   ELSE AddSet(c.before) = <<>> /\ RemoveSet(c.before) = <<>>)

\* with both hooks configured: an Upgrade command for a non-empty AddSet
\* whose Unstaged log was cleared, then an empty Apply command
C8_Witness ==
    /\ Len(hist) = 3
    /\ Did(1, "Add", <<"a">>)
    /\ hist[2].op = "Clear"
    /\ hist[3].op = "GetFinalCmd" /\ hist[3].mode = APPLY
    /\ hist[3].cnf.IPkgMngPre = LOCK /\ hist[3].cnf.IPkgMngPost = UNLOCK
    /\ hist[3].cmd = <<>>
    /\ AddSet(CurFiles) # <<>>

\* "<verb> n1 n2 ...", empty for no names
Fragment(verb, names) ==
    IF names = <<>> THEN <<>> ELSE verb \o <<SP>> \o Join(names, <<SP>>)

\* the two fragments joined as "A && B", or the non-empty one alone
Joined(a, b) ==
    IF a # <<>> /\ b # <<>> THEN a \o <<SP, "&", "&", SP>> \o b
    ELSE IF a # <<>> THEN a ELSE b

NoHooks(cnf) == cnf.IPkgMngPre = <<>> /\ cnf.IPkgMngPost = <<>>

\* C9: in Upgrade mode the command is built from the whole AddSet and
\* RemoveSet in stored order, whatever the Unstaged log holds: add-verb and
\* the AddSet names, remove-verb and the RemoveSet names, joined as "A && B"
\* when both are non-empty (AddSet [a, b] gives "install a b"; AddSet [a] and
\* RemoveSet [b] give "install a && purge b").
C9_UpgradeFromSets ==
    \A i \in 1..Len(hist) :
        LET c == hist[i]
            A == AddSet(c.before)
            R == RemoveSet(c.before)
        IN (c.op = "GetFinalCmd" /\ c.mode = UPGRADE /\ NoHooks(c.cnf))
           => /\ c.res = "ok"
              /\ c.cmd = Joined(Fragment(c.cnf.IPkgMngAdd, A),
                                Fragment(c.cnf.IPkgMngRm, R))
              /\ (A = <<(<<"a">>), (<<"b">>)>> /\ R = <<>>)
                 => c.cmd = INSTALL \o <<SP, "a", SP, "b">>
              /\ (A = <<(<<"a">>)>> /\ R = <<(<<"b">>)>>)
                 => c.cmd = INSTALL \o <<SP, "a", SP, "&", "&", SP>> \o PURGE
                            \o <<SP, "b">>

\* Upgrade with AddSet [a, b] and an empty RemoveSet
C9_Witness ==
    /\ Len(hist) = 3
    /\ Did(1, "Add", <<"a">>)
    /\ Did(2, "Add", <<"b">>)
    /\ hist[3].op = "GetFinalCmd" /\ hist[3].mode = UPGRADE /\ NoHooks(hist[3].cnf)
    /\ hist[3].cmd = INSTALL \o <<SP, "a", SP, "b">>

NamesTagged(log, status) ==
    LET sel == SelectSeq(log, LAMBDA e : e.Status = status)
    IN [k \in 1..Len(sel) |-> sel[k].Name]

\* C10: in Apply mode the command is built from the Unstaged log alone: the
\* names of the entries tagged Add in log order after the add-verb, those
\* tagged Remove after the remove-verb, joined as "A && B" when both are
\* non-empty.
C10_ApplyFromUnstaged ==
    \A i \in 1..Len(hist) :
        LET c == hist[i]
            log == Unstaged(c.before)
        IN (c.op = "GetFinalCmd" /\ c.mode = APPLY /\ c.res = "ok" /\ NoHooks(c.cnf))
           => /\ c.cmd = Joined(Fragment(c.cnf.IPkgMngAdd, NamesTagged(log, ADD)),
                                Fragment(c.cnf.IPkgMngRm, NamesTagged(log, REMOVE)))
              /\ (log = <<[Name |-> <<"b">>, Status |-> REMOVE],
                          [Name |-> <<"a">>, Status |-> ADD]>>)
                 => c.cmd = INSTALL \o <<SP, "a", SP, "&", "&", SP>> \o PURGE
                            \o <<SP, "b">>

\* Apply after Remove("b") and Add("a"): the log is [-b, +a], the command puts
\* the add fragment first
C10_Witness ==
    /\ Len(hist) = 3
    /\ Did(1, "Remove", <<"b">>)
    /\ Did(2, "Add", <<"a">>)
    /\ hist[3].op = "GetFinalCmd" /\ hist[3].mode = APPLY /\ NoHooks(hist[3].cnf)
    /\ hist[3].cmd = INSTALL \o <<SP, "a", SP, "&", "&", SP>> \o PURGE \o <<SP, "b">>

AND == <<SP, "&", "&", SP>>

\* the command before the hooks: the joined fragments of the mode of call c
BaseCmd(c) ==
    IF c.mode = APPLY
    THEN Joined(Fragment(c.cnf.IPkgMngAdd, NamesTagged(Unstaged(c.before), ADD)),
                Fragment(c.cnf.IPkgMngRm, NamesTagged(Unstaged(c.before), REMOVE)))
    ELSE Joined(Fragment(c.cnf.IPkgMngAdd, AddSet(c.before)),
                Fragment(c.cnf.IPkgMngRm, RemoveSet(c.before)))

\* C11: for a non-empty base command c, GetFinalCmd returns "pre && c && post"
\* with both hooks, "pre && c" with the pre-hook only, "c && post" with the
\* post-hook only and c with none (lock, unlock and "install a" give
\* "lock && install a && unlock").
C11_HooksWrapCommand ==
    \A i \in 1..Len(hist) :
        LET c == hist[i]
            pre == c.cnf.IPkgMngPre
            post == c.cnf.IPkgMngPost
            base == BaseCmd(c)
        IN (c.op = "GetFinalCmd" /\ c.res = "ok" /\ base # <<>>)
           => /\ (pre # <<>> /\ post # <<>>) => c.cmd = pre \o AND \o base \o AND \o post
              /\ (pre # <<>> /\ post = <<>>) => c.cmd = pre \o AND \o base
              /\ (pre = <<>> /\ post # <<>>) => c.cmd = base \o AND \o post
              /\ (pre = <<>> /\ post = <<>>) => c.cmd = base
              /\ (pre = LOCK /\ post = UNLOCK /\ base = INSTALL \o <<SP, "a">>)
                 => c.cmd = LOCK \o AND \o INSTALL \o <<SP, "a">> \o AND \o UNLOCK

\* Add("a"), then GetFinalCmd with both hooks, pre-hook first and post-hook
\* last
C11_Witness ==
    /\ Len(hist) >= 2
    /\ Did(1, "Add", <<"a">>)
    /\ hist[2].op = "GetFinalCmd"
    /\ hist[2].cmd = LOCK \o AND \o INSTALL \o <<SP, "a">> \o AND \o UNLOCK

\* C12: loading a list from a file that is empty or holds only white space
\* yields the empty sequence, not a sequence of one empty string.
C12_EmptyFileLoadsEmpty ==
    \A file \in {addFile, removeFile, unstagedFile} :
        TrimSpace(file) = <<>> => Len(getPackages(file)) = 0

\* call i passes the gate
GateOk(i) == CheckStatus(Status, hist[i].agreed) = "ok"

\* the list s without the first occurrence of n
Without(s, n) == RemoveAt(s, IndexOf(s, n))

\* C13: Add(name) with name in RemoveSet is a cancel: it succeeds whatever the
\* catalog answers, removes name from RemoveSet, appends (name, Add) to the
\* Unstaged log (subject to folding) and leaves AddSet unchanged, so that name
\* ends in neither set.
C13_AddCancelsRemove ==
    \A i \in 1..Len(hist) :
        LET c == hist[i]
            n == c.pkg
        IN (c.op = "Add" /\ GateOk(i) /\ n \in Elems(RemoveSet(c.before)))
           => /\ c.res = "ok"
              /\ RemoveSet(After(i)) = Without(RemoveSet(c.before), n)
              /\ AddSet(After(i)) = AddSet(c.before)
              /\ Unstaged(After(i))
                   = Fold(Append(Unstaged(c.before), [Name |-> n, Status |-> ADD]))
              /\ n \notin Elems(AddSet(After(i)))
              /\ n \notin Elems(RemoveSet(After(i)))

\* C14: Remove(name) with name in AddSet and known to the catalog is a cancel:
\* it drops name from AddSet, appends (name, Remove) to the Unstaged log
\* (subject to folding) and leaves RemoveSet unchanged; the catalog is asked
\* first, so a name the catalog does not know is not dropped from AddSet.
C14_RemoveCancelsAdd ==
    \A i \in 1..Len(hist) :
        LET c == hist[i]
            n == c.pkg
        IN /\ (c.op = "Remove" /\ GateOk(i) /\ n \in Elems(AddSet(c.before))
               /\ ExistsInRepo(n, c.repo))
              => /\ c.res = "ok"
                 /\ AddSet(After(i)) = Without(AddSet(c.before), n)
                 /\ RemoveSet(After(i)) = RemoveSet(c.before)
                 /\ Unstaged(After(i))
                      = Fold(Append(Unstaged(c.before), [Name |-> n, Status |-> REMOVE]))
           /\ (c.op = "Remove" /\ GateOk(i) /\ n \in Elems(AddSet(c.before))
               /\ ~ExistsInRepo(n, c.repo))
              => (c.res = "repo" /\ After(i) = c.before)

\* C15: in every reachable state the persisted Unstaged log holds at most one
\* entry per package name, and so never both (n, Add) and (n, Remove).
C15_OneEntryPerName ==
    LET log == Unstaged(CurFiles)
    IN \A i, j \in 1..Len(log) : log[i].Name = log[j].Name => i = j

Entry(status, name) == [Name |-> name, Status |-> status]

\* the rule of the claim, name by name: the position in log of the entry that
\* stands for name n after the first k entries, 0 when n has none.  An entry
\* of an absent name stands; one of the same operation is dropped; one of the
\* opposite operation removes the standing entry and is dropped.
RECURSIVE StandingAt(_, _, _)
StandingAt(log, n, k) ==
    IF k = 0 THEN 0
    ELSE LET prev == StandingAt(log, n, k - 1)
         IN IF log[k].Name # n THEN prev
            ELSE IF prev = 0 THEN k
            ELSE IF log[prev].Status = log[k].Status THEN prev
            ELSE 0

RECURSIVE Ascending(_)
Ascending(S) ==
    IF S = {} THEN <<>> ELSE <<SetMin(S)>> \o Ascending(S \ {SetMin(S)})

\* the standing entries, each at the place where it was appended
Standing(log) ==
    LET at == Ascending({StandingAt(log, log[k].Name, Len(log)) : k \in 1..Len(log)}
                        \ {0})
    IN [j \in 1..Len(at) |-> log[at[j]]]

\* C16: the fold goes through the entries left to right: an entry whose name
\* is absent from the cleaned sequence is appended at its end, one with the
\* name and operation of an existing entry is dropped, one with the name and
\* the opposite operation removes the existing entry and is dropped; so
\* [+a, +b, -a, +a] folds to [+b, +a], and neither the last entry of a name
\* nor a count of its adds and removes decides what remains.
C16_FoldRule ==
    Len(foldOut) >= 1
    => /\ foldOut[1] = Standing(foldIn)
       /\ foldIn = <<Entry(ADD, <<"a">>), Entry(ADD, <<"b">>),
                     Entry(REMOVE, <<"a">>), Entry(ADD, <<"a">>)>>
          => foldOut[1] = <<Entry(ADD, <<"b">>), Entry(ADD, <<"a">>)>>
       /\ foldIn = <<Entry(ADD, <<"a">>), Entry(ADD, <<"a">>), Entry(REMOVE, <<"a">>)>>
          => foldOut[1] = <<>>
       /\ foldIn = <<Entry(ADD, <<"a">>), Entry(REMOVE, <<"a">>), Entry(REMOVE, <<"a">>)>>
          => foldOut[1] = <<Entry(REMOVE, <<"a">>)>>

\* [+a, +b, -a, +a] folded: a is cancelled and staged again behind b
C16_Witness ==
    /\ foldIn = <<Entry(ADD, <<"a">>), Entry(ADD, <<"b">>),
                  Entry(REMOVE, <<"a">>), Entry(ADD, <<"a">>)>>
    /\ Len(foldOut) >= 1
    /\ foldOut[1] = <<Entry(ADD, <<"b">>), Entry(ADD, <<"a">>)>>

\* C17: a staging call is refused at the gate exactly when the status is
\* PKG_MNG_REQ_AGREEMENT and no agreement record exists; under
\* PKG_MNG_DISABLED, as under PKG_MNG_ENABLED, the gate lets Add and Remove
\* through and a successful call on a name that is in neither set and not in
\* the log changes the stored lists.
C17_GateOnlyOnMissingAgreement ==
    \A i \in 1..Len(hist) :
        hist[i].op \in {"Add", "Remove"}
        => /\ hist[i].res = "gate"
              <=> (Status = PKG_MNG_REQ_AGREEMENT /\ ~hist[i].agreed)
           /\ CheckStatus(Status, hist[i].agreed) = "gate"
              <=> (Status = PKG_MNG_REQ_AGREEMENT /\ ~hist[i].agreed)
           /\ (/\ Status # PKG_MNG_REQ_AGREEMENT
               /\ hist[i].res = "ok"
               /\ Neutral(hist[i].before, hist[i].pkg))
              => After(i) # hist[i].before

\* a disabled package manager that staged a and unstaged b
C17_Witness ==
    /\ Status = PKG_MNG_DISABLED
    /\ Len(hist) >= 2
    /\ Did(1, "Add", <<"a">>)
    /\ Did(2, "Remove", <<"b">>)
    /\ AddSet(After(2)) = <<<<"a">>>>
    /\ RemoveSet(After(2)) = <<<<"b">>>>
    /\ Unstaged(After(2)) = <<Entry(ADD, <<"a">>), Entry(REMOVE, <<"b">>)>>

\* C18: in every state reached by Add, Remove and ClearUnstagedPackages from
\* empty lists, an Unstaged entry (n, Remove) has n outside AddSet and an
\* Unstaged entry (n, Add) has n outside RemoveSet.
C18_LogAgreesWithSets ==
    LET log == Unstaged(CurFiles)
    IN \A k \in 1..Len(log) :
           /\ log[k].Status = REMOVE => log[k].Name \notin Elems(AddSet(CurFiles))
           /\ log[k].Status = ADD => log[k].Name \notin Elems(RemoveSet(CurFiles))

\* the configuration under which the commands of C19 and C20 are read
PlainCnf == [IPkgMngAdd |-> INSTALL, IPkgMngRm |-> PURGE,
             IPkgMngPre |-> <<>>, IPkgMngPost |-> <<>>]

\* the package tokens a fragment "verb n1 n2 ..." hands to the package manager
Tokens(fragment, verb) ==
    IF fragment = <<>> THEN {}
    ELSE Elems(Split(SubSeq(fragment, Len(verb) + 2, Len(fragment)), SP)) \ {<<>>}

\* an image is its set of installed packages; a command installs the tokens
\* of its add fragment, then removes those of its remove fragment
Exec(installed, frag) ==
    (installed \cup Tokens(frag.add, INSTALL)) \ Tokens(frag.rm, PURGE)

BaseImages == SUBSET {<<"a">>, <<"b">>}

\* the image after the first k calls of hist, when the Apply command is
\* executed on the current image at every ClearUnstagedPackages
RECURSIVE ImageAt(_, _)
ImageAt(base, k) ==
    IF k = 0 THEN base
    ELSE IF hist[k].op = "Clear"
         THEN Exec(ImageAt(base, k - 1), processApplyPackages(hist[k].before, PlainCnf))
         ELSE ImageAt(base, k - 1)

\* hist is a sequence of successful Add and Remove calls and of clearings
Staging ==
    \A i \in 1..Len(hist) :
        /\ hist[i].op \in {"Add", "Remove", "Clear"}
        /\ hist[i].res = "ok"

\* C19: from a base image and empty lists, after successful Add and Remove
\* calls with the Apply command executed and the log cleared at arbitrary
\* points and once at the end, the image is the one the Upgrade command
\* gives on the base image.
C19_ApplyStepsEqualUpgrade ==
    Staging
    => \A base \in BaseImages :
           /\ ~processApplyPackages(CurFiles, PlainCnf).panic
           /\ Exec(ImageAt(base, Len(hist)), processApplyPackages(CurFiles, PlainCnf))
              = Exec(base, processUpgradePackages(CurFiles, PlainCnf))

\* C20: in every reachable state, also after staging a compound name such
\* as "a b" and a single name such as "a", no space-separated package token
\* is in both the add fragment and the remove fragment of the command of
\* GetFinalCmd, in Upgrade mode and in Apply mode.
C20_NoTokenInBothFragments ==
    LET up == processUpgradePackages(CurFiles, PlainCnf)
        ap == processApplyPackages(CurFiles, PlainCnf)
    IN /\ Tokens(up.add, INSTALL) \cap Tokens(up.rm, PURGE) = {}
       /\ ~ap.panic => Tokens(ap.add, INSTALL) \cap Tokens(ap.rm, PURGE) = {}

\* C21: Add and Remove persist the Unstaged log before AddSet or RemoveSet.
\* A call whose log write fails returns the error with AddSet and RemoveSet
\* unchanged; a call whose log write succeeds and whose set write fails
\* returns the error with the log updated and the sets unchanged.
C21_LogWrittenBeforeSets ==
    \A i \in 1..Len(hist) :
        LET c == hist[i]
            entry == Entry(IF c.op = "Add" THEN ADD ELSE REMOVE, c.pkg)
        IN /\ c.fault.write # "none" <=> c.res = "io"
           /\ c.fault.write = "log"
              => /\ AddSet(After(i)) = AddSet(c.before)
                 /\ RemoveSet(After(i)) = RemoveSet(c.before)
           /\ c.fault.write = "set"
              => /\ Unstaged(After(i)) = Fold(Append(Unstaged(c.before), entry))
                 /\ AddSet(After(i)) = AddSet(c.before)
                 /\ RemoveSet(After(i)) = RemoveSet(c.before)

\* C22: the log round-trips through its file: for every folded sequence of
\* entries that Add or Remove writes, empty names and names with spaces
\* included, GetUnstagedPackages reads back from the file written by
\* writeUnstagedPackages the same sequence of entries, and never indexes past
\* the result of splitting a line on its first space.
C22_LogRoundTrips ==
    \A i \in 1..Len(hist) :
        (hist[i].op \in {"Add", "Remove"} /\ hist[i].res = "ok")
        => LET entry == Entry(IF hist[i].op = "Add" THEN ADD ELSE REMOVE, hist[i].pkg)
               upkgs == Append(GetUnstagedPackages(hist[i].before.unstaged).list, entry)
               back == GetUnstagedPackages(writeUnstagedPackages(upkgs))
           IN /\ After(i).unstaged = writeUnstagedPackages(upkgs)
              /\ ~back.panic
              /\ back.list = Fold(upkgs)

====
